---- MODULE Spec2Model ----
(***************************************************************************)
(* Owl Q&A (src/app.py): one run of the Streamlit script after the user    *)
(* presses Submit.  Strings are tuples of one-character strings; fixed     *)
(* literals of the source are kept as single tokens.  Python values are    *)
(* tagged records; a dict or an object is a function from its keys (or     *)
(* attribute names) to values, so an absent key is a key outside DOMAIN.   *)
(***************************************************************************)
EXTENDS Integers, Sequences, FiniteSets, TLC

\* ---------------------------------------------------------------- bounds
MaxQueryLen == 2
MaxDocs == 2
MinLimitChars == 2
MaxLimitChars == 3
MaxCandidates == 2
MaxParts == 2
MaxRuns == 2
WideLimitChars == 12

\* ------------------------------------------------------- python values
NoneV == [t |-> "None"]
StrV(s) == [t |-> "str", s |-> s]
IntV(n) == [t |-> "int", n |-> n]
ListV(xs) == [t |-> "list", items |-> xs]
DictV(d) == [t |-> "dict", d |-> d]
ObjV(a) == [t |-> "obj", a |-> a]
\* an attribute whose read raises an exception other than AttributeError
RaisingV(msg) == [t |-> "raises", msg |-> msg]
EmptyMap == <<>>

Truthy(v) ==
  CASE v.t = "None" -> FALSE
    [] v.t = "str" -> v.s # <<>>
    [] v.t = "int" -> v.n # 0
    [] v.t = "list" -> v.items # <<>>
    [] v.t = "dict" -> DOMAIN v.d # {}
    [] OTHER -> TRUE

Or(a, b) == IF Truthy(a) THEN a ELSE b

\* dict.get(key, default); the receiver is a dict
Get(v, key, default) == IF key \in DOMAIN v.d THEN v.d[key] ELSE default

\* getattr(o, name, default); None and attribute-less objects give the default
GetAttr(o, name, default) ==
  IF o.t = "obj" /\ name \in DOMAIN o.a THEN o.a[name] ELSE default

\* ------------------------------------------------------------- strings
Whitespace == {" ", "\n"}

RECURSIVE lstrip(_)
lstrip(s) == IF s # <<>> /\ Head(s) \in Whitespace THEN lstrip(Tail(s)) ELSE s

RECURSIVE rstrip(_)
rstrip(s) ==
  IF s # <<>> /\ s[Len(s)] \in Whitespace THEN rstrip(SubSeq(s, 1, Len(s) - 1)) ELSE s

strip(s) == rstrip(lstrip(s))

lower(s) ==
  [n \in 1..Len(s) |->
     CASE s[n] = "Q" -> "q" [] s[n] = "U" -> "u" [] s[n] = "O" -> "o"
       [] s[n] = "T" -> "t" [] s[n] = "A" -> "a" [] OTHER -> s[n]]

\* Python's  sub in s
Contains(s, sub) ==
  \E n \in 0..(Len(s) - Len(sub)) : SubSeq(s, n + 1, n + Len(sub)) = sub

RECURSIVE join(_, _)
join(sep, xs) ==
  IF xs = <<>> THEN <<>>
  ELSE IF Len(xs) = 1 THEN xs[1]
  ELSE xs[1] \o sep \o join(sep, Tail(xs))

SeqsUpTo(S, n) == UNION {[1..m -> S] : m \in 0..n}

\* ------------------------------------------------- constants of app.py
MODEL_OPTIONS ==
  {"gemini-2.5-flash", "gemini-2.5-flash-lite", "gemini-2.5-pro", "gemini-2.0-flash-lite"}

SYSTEM_PROMPT == <<"SYSTEM_PROMPT">>

backoffs_doubled == <<10, 20, 40>>

backoffs_swapped == <<10, 5, 20>>

\* seconds, in tenths
backoffs == <<5, 10, 20>>

TRUNCATION_NOTICE == <<"\n", "\n", "[...context truncated to fit model limits...]">>

NO_RESPONSE == <<"No response received from Gemini.">>

\* ------------------------------------------------------------- helpers
trim_context_strict(text, limit_chars) ==
  IF text = <<>> THEN <<>>
  ELSE IF Len(text) < limit_chars THEN text
  ELSE SubSeq(text, 1, limit_chars) \o TRUNCATION_NOTICE

trim_context(text, limit_chars) ==
  IF text = <<>> THEN <<>>
  ELSE IF Len(text) <= limit_chars THEN text
  ELSE SubSeq(text, 1, limit_chars) \o TRUNCATION_NOTICE

build_prompt(system_prompt, context, question) ==
  system_prompt \o <<"\n", "\n", "### Context:", "\n">> \o context
    \o <<"\n", "\n", "### User Question:", "\n">> \o question

\* requests.exceptions: cls is an instance of base when base is cls or an ancestor
Bases(cls) ==
  CASE cls = "HTTPError" -> {"HTTPError", "RequestException"}
    [] cls = "ConnectTimeout" ->
         {"ConnectTimeout", "ConnectionError", "Timeout", "RequestException"}
    [] cls = "ReadTimeout" -> {"ReadTimeout", "Timeout", "RequestException"}
    [] cls = "ConnectionError" -> {"ConnectionError", "RequestException"}
    [] cls = "JSONDecodeError" -> {"JSONDecodeError", "InvalidJSONError", "RequestException"}
    [] cls = "MissingSchema" -> {"MissingSchema", "RequestException"}
    [] OTHER -> {cls}

isinstance(e, base) == base \in Bases(e.cls)

_requests_error_msg_connection_first(e) ==
  IF isinstance(e, "HTTPError") /\ e.has_response THEN
    IF e.status = 429 THEN <<"Rate limit / quota exceeded (HTTP 429). Details: ", e.body>>
    ELSE IF e.status >= 500
      THEN <<"Server error (HTTP ", ToString(e.status), "). Details: ", e.body>>
    ELSE <<"HTTP ", ToString(e.status), " error. Details: ", e.body>>
  ELSE IF isinstance(e, "ConnectionError")
    THEN <<"Network error reaching the Similarity API.">>
  ELSE IF isinstance(e, "ConnectTimeout")
    THEN <<"Connection timed out contacting the Similarity API.">>
  ELSE IF isinstance(e, "ReadTimeout") THEN <<"Similarity API took too long to respond.">>
  ELSE <<"Request error: ", e.msg>>

_requests_error_msg(e) ==
  IF isinstance(e, "HTTPError") /\ e.has_response THEN
    IF e.status = 429 THEN <<"Rate limit / quota exceeded (HTTP 429). Details: ", e.body>>
    ELSE IF e.status >= 500
      THEN <<"Server error (HTTP ", ToString(e.status), "). Details: ", e.body>>
    ELSE <<"HTTP ", ToString(e.status), " error. Details: ", e.body>>
  ELSE IF isinstance(e, "ConnectTimeout")
    THEN <<"Connection timed out contacting the Similarity API.">>
  ELSE IF isinstance(e, "ReadTimeout") THEN <<"Similarity API took too long to respond.">>
  ELSE IF isinstance(e, "ConnectionError") THEN <<"Network error reaching the Similarity API.">>
  ELSE <<"Request error: ", e.msg>>

missing_never(key) == FALSE

\* not GOOGLE_API_KEY
missing(key) == key = "None"

after_generation_error_retry == "generate"

\* line 192: st.stop() ends the run after a generation error
after_generation_error == "stopped"

blank_unstripped(q) == q = <<>>

\* not query.strip()
blank(q) == strip(q) = <<>>

no_documents_only_none(docs) == docs.t = "None"

\* not similar_docs
no_documents(docs) == ~Truthy(docs)

retry_short(idx) == idx < Len(backoffs) - 2

\* i < len(backoffs) - 1, with i counted from 0
retry(idx) == idx < Len(backoffs) - 1

best_text_document_first(d) ==
  Or(Get(d, "document", NoneV), Get(d, "combined_details", StrV(<<>>)))

\* d.get("combined_details") or d.get("document", "")
best_text(d) == Or(Get(d, "combined_details", NoneV), Get(d, "document", StrV(<<>>)))

\* "\n\n".join([... for d in similar_docs]): the joined text, or the exception raised
context_join(docs) ==
  IF docs.t = "int" THEN [exc |-> "TypeError", text |-> <<>>]
  ELSE IF docs.t # "list" THEN [exc |-> "AttributeError", text |-> <<>>]
  ELSE IF \E n \in 1..Len(docs.items) : docs.items[n].t # "dict"
    THEN [exc |-> "AttributeError", text |-> <<>>]
  ELSE LET texts == [n \in 1..Len(docs.items) |-> best_text(docs.items[n])] IN
    IF \E n \in 1..Len(texts) : texts[n].t # "str" THEN [exc |-> "TypeError", text |-> <<>>]
    ELSE [exc |-> "none", text |-> join(<<"\n", "\n">>, [n \in 1..Len(texts) |-> texts[n].s])]

is_quota_case_sensitive(msg) ==
  Contains(msg, <<"4", "2", "9">>) \/ Contains(msg, <<"q", "u", "o", "t", "a">>)

\* "429" in msg or "quota" in msg.lower()
is_quota(msg) ==
  Contains(msg, <<"4", "2", "9">>) \/ Contains(lower(msg), <<"q", "u", "o", "t", "a">>)

\* the texts appended to  parts  by the loops over candidates and their parts
RECURSIVE part_texts(_)
part_texts(ps) ==
  IF ps = <<>> THEN <<>>
  ELSE LET txt == GetAttr(Head(ps), "text", StrV(<<>>)) IN
    (IF Truthy(txt) THEN <<txt.s>> ELSE <<>>) \o part_texts(Tail(ps))

RECURSIVE fragments(_)
fragments(cs) ==
  IF cs = <<>> THEN <<>>
  ELSE LET content == GetAttr(Head(cs), "content", NoneV) IN
    part_texts(Or(GetAttr(content, "parts", ListV(<<>>)), ListV(<<>>)).items)
      \o fragments(Tail(cs))

top_text_unstripped(r) == Or(GetAttr(r, "text", StrV(<<>>)), StrV(<<>>)).s

\* getattr(resp, "text", "") lets every exception but AttributeError through
text_raises(r) == "text" \in DOMAIN r.a /\ r.a["text"].t = "raises"

\* the top-level text after  (getattr(resp, "text", "") or "").strip()
top_text(r) == strip(Or(GetAttr(r, "text", StrV(<<>>)), StrV(<<>>)).s)

fallback_text(r) ==
  strip(join(<<"\n">>, fragments(Or(GetAttr(r, "candidates", ListV(<<>>)), ListV(<<>>)).items)))

normalize(r) ==
  IF top_text(r) # <<>> THEN top_text(r)
  ELSE IF fallback_text(r) # <<>> THEN fallback_text(r)
  ELSE NO_RESPONSE

\* ----------------------------------------------- the similarity endpoint
HTTPError(status) ==
  [cls |-> "HTTPError", has_response |-> TRUE, status |-> status, body |-> "{body}", msg |-> ""]

RequestError(cls, msg) ==
  [cls |-> cls, has_response |-> FALSE, status |-> 0, body |-> "", msg |-> msg]

\* the documents of a response: dicts with or without either text field, and a non-dict
Docs ==
  {DictV(d) : d \in
     {EmptyMap, [combined_details |-> StrV(<<"a">>)],
      [document |-> NoneV], [document |-> StrV(<<"b", "c">>)],
      [combined_details |-> StrV(<<>>), document |-> StrV(<<"b", "c">>)],
      [combined_details |-> StrV(<<"a">>), document |-> StrV(<<"b", "c">>)]}}
  \cup {StrV(<<"a">>)}

\* documents with and without the displayed fields
ShownDocs ==
  {DictV(d) : d \in
     {EmptyMap, [document |-> StrV(<<"b", "c">>)],
      [url |-> StrV(<<"u">>), combined_details |-> StrV(<<"a">>)],
      [title |-> StrV(<<"T">>), source |-> StrV(<<"S">>), page_label |-> StrV(<<"1">>),
       URL |-> StrV(<<"U">>), combined_details |-> StrV(<<"a">>),
       document |-> StrV(<<"b", "c">>)],
      [title |-> NoneV, URL |-> StrV(<<>>), document |-> StrV(<<"b", "c">>)],
      [combined_details |-> StrV(<<"a">>), document |-> IntV(5)]}}

ShownBodies == {DictV([results |-> ListV(ds)]) : ds \in SeqsUpTo(ShownDocs, MaxDocs)}

\* what r.json() can return
JsonBodies ==
  {NoneV, ListV(<<>>), DictV(EmptyMap)}
  \cup {DictV([results |-> v]) : v \in {NoneV, IntV(5)}}
  \cup {DictV([results |-> ListV(ds)]) : ds \in SeqsUpTo(Docs, MaxDocs)}

FewBodies ==
  {DictV([results |-> ListV(<<>>)]),
   DictV([results |-> ListV(<<DictV([document |-> StrV(<<"b", "c">>)])>>)])}

Statuses == {200, 404, 429, 500, 503}

\* one HTTP exchange: a transport failure or a response
Exchanges(api_url, bodies) ==
  IF api_url = "None" THEN {[kind |-> "MissingSchema"]}
  ELSE {[kind |-> c] : c \in {"ConnectTimeout", "ReadTimeout", "ConnectionError"}}
       \cup {[kind |-> "response", status |-> st, parsable |-> FALSE] : st \in Statuses}
       \cup {[kind |-> "response", status |-> 200, parsable |-> TRUE, json |-> b] :
               b \in bodies}

\* requests.post(...); r.raise_for_status(); r.json().  A body that is not JSON makes
\* r.json() raise requests.exceptions.JSONDecodeError, a RequestException
post(x) ==
  IF x.kind = "MissingSchema"
    THEN [raised |-> TRUE, e |-> RequestError("MissingSchema", "Invalid URL 'None'")]
  ELSE IF x.kind # "response" THEN [raised |-> TRUE, e |-> RequestError(x.kind, "")]
  ELSE IF x.status >= 400 /\ x.status < 600 THEN [raised |-> TRUE, e |-> HTTPError(x.status)]
  ELSE IF ~x.parsable
    THEN [raised |-> TRUE, e |-> RequestError("JSONDecodeError", "Expecting value")]
  ELSE [raised |-> FALSE, json |-> x.json]

\* ------------------------------------------------ the generation service
Messages ==
  { <<>>, <<"b", "o", "o", "m">>, <<"4", "2", "9">>, <<"x", "4", "2", "9", "x">>,
    <<"4", "2", " ", "9">>, <<"q", "u", "o", "t", "a">>, <<"Q", "u", "o", "t", "a">>,
    <<"x", "Q", "U", "O", "T", "A">>, <<"q", "u", "o", "t">> }

Parts == {ObjV([text |-> StrV(s)]) : s \in {<<>>, <<"x">>, <<"y", " ">>}}

Candidates ==
  {ObjV(EmptyMap), ObjV([content |-> NoneV]), ObjV([content |-> ObjV([parts |-> NoneV])])}
  \cup {ObjV([content |-> ObjV([parts |-> ListV(ps)])]) : ps \in SeqsUpTo(Parts, MaxParts)}

RECURSIVE CountParts(_)
CountParts(cs) ==
  IF cs = <<>> THEN 0
  ELSE LET ps == GetAttr(GetAttr(Head(cs), "content", NoneV), "parts", NoneV) IN
    (IF ps.t = "list" THEN Len(ps.items) ELSE 0) + CountParts(Tail(cs))

\* candidate lists with at most MaxParts parts in all
CandidateLists == {cs \in SeqsUpTo(Candidates, MaxCandidates) : CountParts(cs) <= MaxParts}

Responses ==
  {ObjV(EmptyMap), ObjV([text |-> NoneV]), ObjV([text |-> NoneV, candidates |-> NoneV]),
   ObjV([text |-> StrV(<<" ", "a", "\n">>)]), ObjV([text |-> RaisingV(<<"b", "o", "o", "m">>)])}
  \cup {ObjV([text |-> StrV(s), candidates |-> ListV(cs)]) :
          s \in {<<>>, <<" ">>, <<"a">>}, cs \in CandidateLists}

FewMessages == {<<"b", "o", "o", "m">>, <<"4", "2", "9">>}
FewResponses == {ObjV(EmptyMap), ObjV([text |-> StrV(<<"a">>)])}

\* ------------------------------------------------------------ the state
VARIABLES
  SIMILARITY_API_URL, GOOGLE_API_KEY,
  selected_model, temperature, k, max_context_chars, query,
  pc, state, visited, shown,
  cache, i, slept, posted, wire, out, uncached, runs,
  similar_docs, context_details, calls, resp, final_answer, caught, escaped

config == <<SIMILARITY_API_URL, GOOGLE_API_KEY>>
widgets == <<selected_model, temperature, k, max_context_chars, query>>
retrieval == <<cache, i, slept, posted, wire, out, uncached>>
generation == <<calls, resp, final_answer, caught>>
vars ==
  <<config, widgets, pc, state, visited, shown, retrieval, similar_docs, context_details,
    generation, escaped, runs>>

Queries == SeqsUpTo({" ", "a"}, MaxQueryLen)
Temperatures == {0, 50, 100}
KValues == {1, 10}
LimitChars == MinLimitChars..MaxLimitChars

NoExchange == [kind |-> "none"]
NoOut == [ok |-> FALSE, error |-> <<>>]
NoResp == NoneV
NotRaised == [raised |-> FALSE, msg |-> <<>>]
NoException == [exc |-> "none", line |-> 0]

Init ==
  /\ SIMILARITY_API_URL \in {"None", "https://similarity"}
  /\ GOOGLE_API_KEY \in {"None", "key"}
  /\ selected_model = "gemini-2.5-flash"
  /\ temperature = 50
  /\ k = 5
  /\ max_context_chars = MinLimitChars
  /\ query = <<>>
  /\ pc = "start"
  /\ state = "Idle"
  /\ visited = <<"Idle">>
  /\ shown = <<>>
  /\ cache = EmptyMap
  /\ i = 0
  /\ slept = <<>>
  /\ posted = <<>>
  /\ wire = NoExchange
  /\ out = NoOut
  /\ uncached = NoOut
  /\ runs = 1
  /\ similar_docs = ListV(<<>>)
  /\ context_details = <<>>
  /\ calls = <<>>
  /\ resp = NoResp
  /\ final_answer = <<>>
  /\ caught = NotRaised
  /\ escaped = NoException

\* ---------------------------------------------------------- the script
Message(kind, text) == [kind |-> kind, text |-> text]

Enter(st) == state' = st /\ visited' = Append(visited, st)

\* lines 57-61: the credential check
Startup ==
  /\ pc = "start"
  /\ IF missing(GOOGLE_API_KEY)
       THEN /\ shown' = Append(shown, Message("error", <<"GOOGLE_API_KEY not found.">>))
            /\ pc' = "stopped"
       ELSE /\ shown' = shown
            /\ pc' = "input"
  /\ UNCHANGED <<config, runs, widgets, state, visited, retrieval, similar_docs, context_details,
                 generation, escaped>>

\* line 132: the script ran without Submit pressed
NoSubmit ==
  /\ pc = "input"
  /\ pc' = "stopped"
  /\ UNCHANGED <<config, runs, widgets, state, visited, shown, retrieval, similar_docs,
                 context_details, generation, escaped>>

\* lines 35-38, 77-78, 132-137: the widgets' values and the query guard
Submit(q, m, t, kk, lim) ==
  /\ pc = "input"
  /\ query' = q
  /\ selected_model' = m
  /\ temperature' = t
  /\ k' = kk
  /\ max_context_chars' = lim
  /\ IF blank(q)
       THEN /\ shown' = Append(shown, Message("warning", <<"Please enter a question to continue.">>))
            /\ pc' = "stopped"
            /\ UNCHANGED <<state, visited>>
       ELSE /\ shown' = Append(shown, Message("subheader", <<"Retrieving Similar Documents">>))
            /\ Enter("Retrieving")
            /\ pc' = "fetch"
  /\ UNCHANGED <<config, runs, retrieval, similar_docs, context_details, generation, escaped>>

\* st.cache_data: the key is the argument tuple
cache_key == <<SIMILARITY_API_URL, query, k>>

payload == [text |-> query, k |-> k]

\* what the body of fetch_similar can return when it runs
FreshResults(api_url, bodies) ==
  {[ok |-> TRUE, json |-> post(x).json] :
     x \in {y \in Exchanges(api_url, bodies) : ~post(y).raised}}
  \cup {[ok |-> FALSE, error |-> _requests_error_msg(post(x).e)] :
          x \in {y \in Exchanges(api_url, bodies) : post(y).raised}}

\* lines 113-116, 139: the call of fetch_similar; a cached result is returned without
\* running the body.  uncached records what the body would have returned (fresh) had it run
FetchCall(fresh) ==
  /\ pc = "fetch"
  /\ IF cache_key \in DOMAIN cache
       THEN /\ out' = cache[cache_key]
            /\ uncached' = fresh
            /\ pc' = "read"
            /\ i' = i
       ELSE /\ i' = 0
            /\ pc' = "attempt"
            /\ UNCHANGED <<out, uncached>>
  /\ UNCHANGED <<config, runs, widgets, state, visited, shown, cache, slept, posted, wire,
                 similar_docs, context_details, generation, escaped>>

Store(result) ==
  /\ out' = result
  /\ uncached' = result
  /\ cache' = [key \in DOMAIN cache \cup {cache_key} |->
                 IF key = cache_key THEN result ELSE cache[key]]
  /\ pc' = "read"

\* lines 117-126: one iteration of the retry loop
Attempt(x) ==
  /\ pc = "attempt"
  /\ posted' = Append(posted, [json |-> payload, raised |-> post(x).raised])
  /\ wire' = x
  /\ LET r == post(x) IN
       IF ~r.raised
         THEN /\ Store([ok |-> TRUE, json |-> r.json])
              /\ UNCHANGED <<i, slept>>
       ELSE IF retry(i)
         THEN /\ slept' = Append(slept, backoffs[i + 1])
              /\ i' = i + 1
              /\ UNCHANGED <<pc, out, cache, uncached>>
       ELSE /\ Store([ok |-> FALSE, error |-> _requests_error_msg(r.e)])
            /\ UNCHANGED <<i, slept>>
  /\ UNCHANGED <<config, runs, widgets, state, visited, shown, similar_docs, context_details,
                 generation, escaped>>

\* lines 140-153: reading the result of fetch_similar
ReadResult ==
  /\ pc = "read"
  /\ IF ~out.ok
       THEN /\ shown' = Append(shown, Message("error",
                                 <<"Error calling Similarity API: ">> \o out.error))
            /\ Enter("RetrievalFailed")
            /\ pc' = "stopped"
            /\ UNCHANGED <<similar_docs, escaped>>
     ELSE IF out.json.t # "dict"
       THEN /\ escaped' = [exc |-> "AttributeError", line |-> 146]
            /\ pc' = "crashed"
            /\ UNCHANGED <<shown, state, visited, similar_docs>>
     ELSE LET docs == Or(Get(out.json, "results", ListV(<<>>)), ListV(<<>>)) IN
            /\ similar_docs' = docs
            /\ escaped' = escaped
            /\ IF no_documents(docs)
                 THEN /\ shown' = Append(shown, Message("info",
                                           <<"No similar documents were retrieved.">>))
                      /\ Enter("RetrievalEmpty")
                      /\ pc' = "stopped"
                 ELSE /\ pc' = "assemble"
                      /\ UNCHANGED <<shown, state, visited>>
  /\ UNCHANGED <<config, runs, widgets, retrieval, context_details, generation>>

\* lines 155-157: the context
Assemble ==
  /\ pc = "assemble"
  /\ LET joined == context_join(similar_docs) IN
       IF joined.exc # "none"
         THEN /\ escaped' = [exc |-> joined.exc, line |-> 156]
              /\ pc' = "crashed"
              /\ UNCHANGED <<context_details, state, visited>>
         ELSE /\ context_details' = trim_context(joined.text, max_context_chars)
              /\ Enter("ContextReady")
              /\ pc' = "generate"
              /\ escaped' = escaped
  /\ UNCHANGED <<config, runs, widgets, shown, retrieval, similar_docs, generation>>

\* no generation_config is passed to GenerativeModel or to generate_content
NotPassed == -1

\* lines 160-165: the call of the generation model
StartGeneration ==
  /\ pc = "generate"
  /\ shown' = Append(shown, Message("subheader", <<"Generating Final Answer">>))
  /\ Enter("Generating")
  /\ calls' = Append(calls,
       [model_name |-> selected_model,
        prompt |-> build_prompt(SYSTEM_PROMPT, context_details, query),
        temperature |-> NotPassed,
        max_output_tokens |-> NotPassed])
  /\ pc' = "await"
  /\ UNCHANGED <<config, runs, widgets, retrieval, similar_docs, context_details, resp,
                 final_answer, caught, escaped>>

\* lines 165-192: the call returns a response or raises; an exception raised by the call
\* or by reading the response is caught on line 186
GenerationReturns(g) ==
  /\ pc = "await"
  /\ resp' = IF g.raised THEN resp ELSE g.resp
  /\ IF g.raised \/ text_raises(g.resp)
       THEN LET msg == IF g.raised THEN g.msg ELSE g.resp.a["text"].msg IN
            /\ shown' = Append(shown,
                 IF is_quota(msg)
                   THEN Message("error", <<"Gemini returned a quota/rate-limiting error.">>)
                   ELSE Message("error", <<"Error generating response with Gemini: ">> \o msg))
            /\ caught' = [raised |-> TRUE, msg |-> msg]
            /\ Enter("GenerationFailed")
            /\ pc' = after_generation_error
            /\ final_answer' = final_answer
       ELSE /\ final_answer' = normalize(g.resp)
            /\ shown' = shown \o <<Message("subheader", <<"Agent Response">>),
                                   Message("write", normalize(g.resp))>>
            /\ caught' = caught
            /\ Enter("AnswerReady")
            /\ pc' = "display"
  /\ UNCHANGED <<config, runs, widgets, retrieval, similar_docs, context_details, calls, escaped>>

\* the characters of the preview and of the detail panel
PREVIEW_CHARS == 800
DETAIL_CHARS == 1800

\* the em dash of line 201 and the ellipsis of line 206
EM_DASH == "[U+2014]"
ELLIPSIS == "[U+2026]"

\* s[:n]
Take(s, n) == SubSeq(s, 1, IF Len(s) < n THEN Len(s) ELSE n)

\* f"{v}": str(v)
format(v) ==
  CASE v.t = "str" -> v.s
    [] v.t = "None" -> <<"None">>
    [] v.t = "int" -> <<ToString(v.n)>>
    [] OTHER -> <<"repr">>

title_default_none == NoneV

\* the default of doc.get('title', ...)
title_default == StrV(<<"Untitled">>)

\* lines 197-208: what is written for document number n, and the exception raised by
\* slicing a value that is not a string
panel(n, doc) ==
  LET url == Or(Or(Get(doc, "URL", NoneV), Get(doc, "url", NoneV)), StrV(<<>>))
      preview == Or(Or(Get(doc, "document", NoneV), Get(doc, "combined_details", NoneV)),
                    StrV(<<>>))
      detail == Or(Or(Get(doc, "combined_details", NoneV), Get(doc, "document", NoneV)),
                   StrV(<<>>))
      head ==
        <<Message("expander",
                  <<"Document ", ToString(n), ": ">> \o format(Get(doc, "title", title_default))),
          Message("write", <<"**Source:** ">> \o format(Get(doc, "source", StrV(<<"Unknown">>)))),
          Message("write", <<"**Page:** ">> \o format(Get(doc, "page_label", StrV(<<EM_DASH>>))))>>
        \o (IF Truthy(url) THEN <<Message("write", <<"**URL:** ">> \o format(url))>> ELSE <<>>)
  IN
  IF preview.t # "str" THEN [msgs |-> head, exc |-> "TypeError", line |-> 205]
  ELSE LET body == Append(head, Message("write",
                     <<"**Content Preview:**\n\n">> \o Take(preview.s, PREVIEW_CHARS)
                       \o <<ELLIPSIS>>))
       IN
    IF detail.t # "str" THEN [msgs |-> body, exc |-> "TypeError", line |-> 208]
    ELSE [msgs |-> Append(body, Message("code", Take(detail.s, DETAIL_CHARS))),
          exc |-> "none", line |-> 0]

\* the loop of line 196 from document number n on: it ends at the first exception
RECURSIVE panels(_, _)
panels(n, docs) ==
  IF n > Len(docs) THEN [msgs |-> <<>>, exc |-> "none", line |-> 0]
  ELSE LET first == panel(n, docs[n]) IN
    IF first.exc # "none" THEN first
    ELSE LET rest == panels(n + 1, docs) IN
      [msgs |-> first.msgs \o rest.msgs, exc |-> rest.exc, line |-> rest.line]

\* lines 194-208: the retrieved documents are listed after the answer
Display ==
  /\ pc = "display"
  /\ LET all == panels(1, similar_docs.items) IN
       /\ shown' = Append(shown, Message("subheader", <<"Retrieved Documents">>)) \o all.msgs
       /\ IF all.exc = "none"
            THEN pc' = "stopped" /\ escaped' = escaped
            ELSE pc' = "crashed" /\ escaped' = [exc |-> all.exc, line |-> all.line]
  /\ UNCHANGED <<config, runs, widgets, state, visited, retrieval, similar_docs, context_details,
                 generation>>

Raises(msgs) == {[raised |-> TRUE, msg |-> m] : m \in msgs}
Returns(rs) == {[raised |-> FALSE, resp |-> r] : r \in rs}

\* one run of the script with its inputs drawn from the given sets
Run(queries, models, temperatures, ks, limits, bodies, outcomes) ==
  \/ Startup
  \/ NoSubmit
  \/ /\ pc = "input"
     /\ \E q \in queries, m \in models, t \in temperatures, kk \in ks, lim \in limits :
          Submit(q, m, t, kk, lim)
  \/ /\ pc = "fetch"
     /\ \E fresh \in FreshResults(SIMILARITY_API_URL, bodies) : FetchCall(fresh)
  \/ /\ pc = "attempt"
     /\ \E x \in Exchanges(SIMILARITY_API_URL, bodies) : Attempt(x)
  \/ ReadResult
  \/ Assemble
  \/ StartGeneration
  \/ /\ pc = "await"
     /\ \E g \in outcomes : GenerationReturns(g)
  \/ Display

\* the user interacts again: the script runs again from the top, the cache is kept
Rerun ==
  /\ pc \in {"stopped", "crashed"}
  /\ runs < MaxRuns
  /\ runs' = runs + 1
  /\ pc' = "start"
  /\ state' = "Idle"
  /\ visited' = <<"Idle">>
  /\ shown' = <<>>
  /\ i' = 0
  /\ slept' = <<>>
  /\ posted' = <<>>
  /\ wire' = NoExchange
  /\ out' = NoOut
  /\ uncached' = NoOut
  /\ similar_docs' = ListV(<<>>)
  /\ context_details' = <<>>
  /\ calls' = <<>>
  /\ resp' = NoResp
  /\ final_answer' = <<>>
  /\ caught' = NotRaised
  /\ escaped' = NoException
  /\ UNCHANGED <<config, widgets, cache>>

\* ttl=300: between two runs the cached results may have expired
Expire ==
  /\ pc = "start"
  /\ cache # EmptyMap
  /\ cache' = EmptyMap
  /\ UNCHANGED <<config, runs, widgets, pc, state, visited, shown, i, slept, posted, wire, out,
                 uncached, similar_docs, context_details, generation, escaped>>

\* every endpoint behaviour and every query, default settings
Next ==
  Run(Queries, {"gemini-2.5-flash"}, {50}, KValues, LimitChars, JsonBodies,
      Raises(FewMessages) \cup Returns(FewResponses))

Spec == Init /\ [][Next]_vars

\* every setting of the sidebar
NextSettings ==
  Run({<<"a">>, <<" ">>}, MODEL_OPTIONS, Temperatures, KValues, LimitChars, FewBodies,
      Raises(FewMessages) \cup Returns(FewResponses))

SpecSettings == Init /\ [][NextSettings]_vars

\* every behaviour of the generation service
NextGeneration ==
  Run({<<"a">>, <<" ">>}, {"gemini-2.5-flash"}, {50}, {5}, {MaxLimitChars}, FewBodies,
      Raises(Messages) \cup Returns(Responses))

SpecGeneration == Init /\ [][NextGeneration]_vars

\* every list of documents, under a limit no joined text exceeds
NextContext ==
  Run({<<"a">>, <<" ">>}, {"gemini-2.5-flash"}, {50}, {5}, {WideLimitChars}, JsonBodies,
      Raises(FewMessages) \cup Returns(FewResponses))

SpecContext == Init /\ [][NextContext]_vars

\* one run that proceeds: every step the script can take is eventually taken
NextFetch ==
  Run({<<"a">>, <<" ">>}, {"gemini-2.5-flash"}, {50}, KValues, {MaxLimitChars}, FewBodies,
      Raises(FewMessages) \cup Returns(FewResponses))

SpecFetch == Init /\ [][NextFetch]_vars /\ WF_vars(NextFetch)

\* documents with and without the displayed fields, shown after an answer
NextDisplay ==
  Run({<<"a">>, <<" ">>}, {"gemini-2.5-flash"}, {50}, {5}, {WideLimitChars}, ShownBodies,
      Raises(FewMessages) \cup Returns(FewResponses))

SpecDisplay == Init /\ [][NextDisplay]_vars

\* several runs of the script sharing the cache
NextCache ==
  \/ Run({<<"a">>, <<"a", " ">>}, {"gemini-2.5-flash"}, {50}, KValues, {MaxLimitChars},
         FewBodies, Raises(FewMessages) \cup Returns(FewResponses))
  \/ Rerun
  \/ Expire

SpecCache == Init /\ [][NextCache]_vars

\* ------------------------------------------------------------- claims
Last(seq) == seq[Len(seq)]

\* fetch_similar has returned (or was never called)
FetchReturned == pc \notin {"start", "input", "fetch", "attempt"}

\* for each request of this run, whether it failed
Outcomes == [n \in 1..Len(posted) |-> posted[n].raised]

\* the category a surfaced retrieval message stands for
Category(msg) ==
  CASE Head(msg) = "Rate limit / quota exceeded (HTTP 429). Details: " -> "RateLimited"
    [] Head(msg) = "Server error (HTTP " -> "ServerError"
    [] Head(msg) = "HTTP " -> "ClientError"
    [] Head(msg) = "Connection timed out contacting the Similarity API." -> "Timeout"
    [] Head(msg) = "Similarity API took too long to respond." -> "Timeout"
    [] Head(msg) = "Network error reaching the Similarity API." -> "NetworkUnreachable"
    [] OTHER -> "Unknown"

\* C1: when the first two requests fail and the third succeeds, fetch_similar returns
\* the third request's JSON as a success, having slept 0.5 and then 1.0
C1_RetryThenSuccess ==
  (FetchReturned /\ Outcomes = <<TRUE, TRUE, FALSE>>) =>
    /\ out.ok
    /\ wire.kind = "response"
    /\ out.json = wire.json
    /\ slept = <<5, 10>>

C1_Witness == pc = "read" /\ Outcomes = <<TRUE, TRUE, FALSE>>

\* C2: when every request of a call fails, exactly 3 requests were made, the error
\* returned is the message of the last request's failure, the run stops in
\* RetrievalFailed showing it, and a final 429 is RateLimited
C2_RetryExhaustion ==
  (FetchReturned /\ posted # <<>> /\ \A n \in 1..Len(posted) : posted[n].raised) =>
    /\ Len(posted) = 3
    /\ ~out.ok
    /\ out.error = _requests_error_msg(post(wire).e)
    /\ (wire.kind = "response" /\ wire.status = 429) => Category(out.error) = "RateLimited"
    /\ pc \in {"read", "stopped"}
    /\ pc = "stopped" =>
         /\ state = "RetrievalFailed"
         /\ Last(shown) = Message("error", <<"Error calling Similarity API: ">> \o out.error)

C2_Witness ==
  /\ pc = "stopped"
  /\ state = "RetrievalFailed"
  /\ Len(posted) = 3
  /\ wire.kind = "response"
  /\ wire.status = 429

\* C3 (as claimed): no exception escapes from fetch_similar or from reading its result
C3_NoEscapeFromRetrieval == ~(escaped.exc # "none" /\ escaped.line <= 146)

\* the joined text of the retrieved documents
Joined == context_join(similar_docs).text

ContextAssembled == pc \in {"generate", "await", "display"} \/ (pc = "stopped" /\ calls # <<>>)

\* C4: a joined text no longer than the limit is the context, with no notice; a longer
\* one gives its first max_context_chars characters followed by the notice
C4_Truncation ==
  ContextAssembled =>
    IF Len(Joined) <= max_context_chars
      THEN context_details = Joined /\ ~Contains(context_details, TRUNCATION_NOTICE)
      ELSE /\ Len(context_details) = max_context_chars + Len(TRUNCATION_NOTICE)
           /\ SubSeq(context_details, 1, max_context_chars) = SubSeq(Joined, 1, max_context_chars)
           /\ SubSeq(context_details, max_context_chars + 1, Len(context_details))
                = TRUNCATION_NOTICE

C4_Witness == ContextAssembled /\ Len(Joined) > max_context_chars

\* a response whose "results" is missing, null or an empty list
EmptyResults(json) ==
  /\ json.t = "dict"
  /\ \/ "results" \notin DOMAIN json.d
     \/ json.d["results"] \in {NoneV, ListV(<<>>)}

ResultRead == pc \in {"assemble", "generate", "await", "display", "stopped"} /\ state # "Idle"

\* C5: after a retrieval error the run stops in RetrievalFailed, after an empty result it
\* stops in RetrievalEmpty with an info message, and in both no prompt is built and the
\* model is never called
C5_NoGenerationWithoutDocuments ==
  /\ (ResultRead /\ ~out.ok) =>
       state = "RetrievalFailed" /\ pc = "stopped" /\ Last(shown).kind = "error" /\ calls = <<>>
  /\ (ResultRead /\ out.ok /\ EmptyResults(out.json)) =>
       state = "RetrievalEmpty" /\ pc = "stopped" /\ Last(shown).kind = "info" /\ calls = <<>>
  /\ calls # <<>> => out.ok /\ similar_docs.t = "list" /\ similar_docs.items # <<>>

C5_Witness ==
  /\ state = "RetrievalEmpty"
  /\ out.ok
  /\ "results" \in DOMAIN out.json.d
  /\ out.json.d["results"] = NoneV

Edges ==
  {<<"Idle", "Retrieving">>, <<"Retrieving", "RetrievalEmpty">>,
   <<"Retrieving", "RetrievalFailed">>, <<"Retrieving", "ContextReady">>,
   <<"ContextReady", "Generating">>, <<"Generating", "AnswerReady">>,
   <<"Generating", "GenerationFailed">>}

Terminal == {"RetrievalEmpty", "RetrievalFailed", "AnswerReady", "GenerationFailed"}

RunOver == pc \in {"stopped", "crashed"}

AllWhitespace(q) == \A n \in 1..Len(q) : q[n] \in Whitespace

Submitted == pc \notin {"start", "input"} /\ shown # <<>>

\* C6 (as claimed): the states entered by a submission with a non-empty query form a
\* path of the state machine with no state entered twice, and the run ends in one of
\* the four terminal states
C6_StateMachine ==
  /\ visited[1] = "Idle"
  /\ state = Last(visited)
  /\ \A n \in 1..(Len(visited) - 1) : <<visited[n], visited[n + 1]>> \in Edges
  /\ \A n, m \in 1..Len(visited) : visited[n] = visited[m] => n = m
  /\ (Submitted /\ ~AllWhitespace(query) /\ RunOver) => state \in Terminal

\* C7 (as claimed): every call of the model carries the selected model id, the selected
\* temperature and a maximum output length
C7_CallUsesSettings ==
  \A n \in 1..Len(calls) :
    /\ calls[n].model_name = selected_model
    /\ calls[n].temperature = temperature
    /\ calls[n].max_output_tokens # NotPassed

\* the message contains "429", or "quota" in any letter case
QuotaMatch(m) ==
  \/ \E n \in 1..(Len(m) - 2) : m[n] = "4" /\ m[n + 1] = "2" /\ m[n + 2] = "9"
  \/ \E n \in 1..(Len(m) - 4) :
       /\ m[n] \in {"q", "Q"}
       /\ m[n + 1] \in {"u", "U"}
       /\ m[n + 2] \in {"o", "O"}
       /\ m[n + 3] \in {"t", "T"}
       /\ m[n + 4] \in {"a", "A"}

\* C8: a failed generation call ends the run in GenerationFailed; the rate-limit message
\* is shown exactly when the failure message contains "429" or "quota" in any case, and
\* otherwise the raw failure message is shown
C8_GenerationErrorClassification ==
  caught.raised =>
    /\ state = "GenerationFailed"
    /\ pc = "stopped"
    /\ Last(shown) =
         IF QuotaMatch(caught.msg)
           THEN Message("error", <<"Gemini returned a quota/rate-limiting error.">>)
           ELSE Message("error", <<"Error generating response with Gemini: ">> \o caught.msg)

C8_Witness ==
  /\ caught.raised
  /\ caught.msg = <<"x", "Q", "U", "O", "T", "A">>
  /\ Last(shown).text = <<"Gemini returned a quota/rate-limiting error.">>

\* the response's top-level text as returned, empty when absent or null
RawText(r) == IF "text" \in DOMAIN r.a /\ r.a["text"].t = "str" THEN r.a["text"].s ELSE <<>>

CandidateList(r) ==
  IF "candidates" \in DOMAIN r.a /\ r.a["candidates"].t = "list"
    THEN r.a["candidates"].items ELSE <<>>

PartList(c) ==
  IF "content" \in DOMAIN c.a /\ c.a["content"].t = "obj"
     /\ "parts" \in DOMAIN c.a["content"].a /\ c.a["content"].a["parts"].t = "list"
    THEN c.a["content"].a["parts"].items ELSE <<>>

RECURSIVE Concat(_)
Concat(xs) == IF xs = <<>> THEN <<>> ELSE Head(xs) \o Concat(Tail(xs))

NonEmpty(t) == t # <<>>

\* the non-empty text fragments, candidate by candidate and part by part
FragmentTexts(r) ==
  SelectSeq(
    Concat([n \in 1..Len(CandidateList(r)) |->
              [m \in 1..Len(PartList(CandidateList(r)[n])) |->
                 RawText(PartList(CandidateList(r)[n])[m])]]),
    NonEmpty)

\* generate_content has returned a response
Returned == resp # NoneV

C10_BlankQueryStaysIdle ==
  (Submitted /\ AllWhitespace(query)) =>
    /\ posted = <<>>
    /\ calls = <<>>
    /\ state = "Idle"
    /\ visited = <<"Idle">>
    /\ pc = "stopped"

C10_Witness ==
  /\ pc = "stopped"
  /\ query = <<" ">>
  /\ Last(shown).kind = "warning"

\* C11 (as claimed): the text posted to the endpoint, the text in the cache key and the
\* question at the end of the prompt are the submitted query with its surrounding
\* whitespace removed
C11_QueryTrimmed ==
  /\ \A n \in 1..Len(posted) : posted[n].json.text = strip(query)
  /\ \A key \in DOMAIN cache : key[2] = strip(key[2])
  /\ \A n \in 1..Len(calls) :
       SubSeq(calls[n].prompt, Len(calls[n].prompt) - Len(strip(query)),
              Len(calls[n].prompt)) = <<"\n">> \o strip(query)

\* fetch_similar was called in this run and has returned
Fetched == FetchReturned /\ state # "Idle"

\* C12 (as claimed): the result a submission reads from fetch_similar is the result the
\* call would give without the cache
C12_CacheTransparent == Fetched => out = uncached

\* the retrieved documents have all been displayed
Displayed == pc = "stopped" /\ state = "AnswerReady"

\* where the panel of document number n starts in what is shown
PanelStart(n) ==
  CHOOSE p \in 1..Len(shown) : shown[p].kind = "expander" /\ shown[p].text[2] = ToString(n)

\* what is shown for document number n
Panel(n) ==
  SubSeq(shown, PanelStart(n),
         IF n < Len(similar_docs.items) THEN PanelStart(n + 1) - 1 ELSE Len(shown))

Absent(doc, fields) == fields \cap DOMAIN doc.d = {}

\* the panel shows these placeholders for the document's absent fields
Placeholders(n, doc, title, source, page, details) ==
  LET w == Panel(n) IN
  /\ Absent(doc, {"title"}) => w[1].text = <<"Document ", ToString(n), ": ", title>>
  /\ Absent(doc, {"source"}) => w[2].text = <<"**Source:** ", source>>
  /\ Absent(doc, {"page_label"}) => w[3].text = <<"**Page:** ", page>>
  /\ Absent(doc, {"URL", "url"}) => \A m \in 1..Len(w) : w[m].text = <<>> \/ Head(w[m].text) # "**URL:** "
  /\ Absent(doc, {"combined_details", "document"}) =>
       /\ w[Len(w) - 1].text = <<"**Content Preview:**\n\n">> \o details \o <<ELLIPSIS>>
       /\ w[Len(w)] = Message("code", details)

\* C13 (as claimed): a displayed document's missing title is shown as "No title
\* available", its missing source as "Unknown source", its missing page label as "N/A",
\* its missing URL as empty and its missing detail text as "No details available"
C13_PlaceholdersAsClaimed ==
  Displayed =>
    \A n \in 1..Len(similar_docs.items) :
      Placeholders(n, similar_docs.items[n], "No title available", "Unknown source", "N/A",
                   <<"No details available">>)

\* C13 (amended): a displayed document's missing title is shown as "Untitled", its
\* missing source as "Unknown", its missing page label as an em dash, its missing URL
\* by no URL line and its missing detail text as the empty text, in the preview, in the
\* detail panel and in the context
C13_Placeholders ==
  /\ Displayed =>
       \A n \in 1..Len(similar_docs.items) :
         Placeholders(n, similar_docs.items[n], "Untitled", "Unknown", EM_DASH, <<>>)
  /\ (ContextAssembled /\ Len(similar_docs.items) = 1
        /\ Absent(similar_docs.items[1], {"combined_details", "document"})) =>
       context_details = <<>>

C13_Witness ==
  /\ Displayed
  /\ similar_docs.items[1] = DictV(EmptyMap)
  /\ shown[PanelStart(1)].text = <<"Document ", "1", ": ", "Untitled">>
  /\ context_details = <<>>

\* C14: without the credential the run halts at startup: no similarity request is sent,
\* no generation call is made and no submission is handled
C14_MissingCredentialFatal ==
  GOOGLE_API_KEY = "None" =>
    /\ pc \in {"start", "stopped"}
    /\ state = "Idle"
    /\ posted = <<>>
    /\ calls = <<>>
    /\ out = NoOut

C14_Witness ==
  /\ GOOGLE_API_KEY = "None"
  /\ pc = "stopped"
  /\ shown = <<Message("error", <<"GOOGLE_API_KEY not found.">>)>>

\* the category the outcome of the final request determines
ExpectedCategory(x) ==
  CASE x.kind = "response" /\ x.status = 429 -> "RateLimited"
    [] x.kind = "response" /\ x.status >= 500 -> "ServerError"
    [] x.kind = "response" /\ x.status >= 400 /\ x.status < 500 /\ x.status # 429 -> "ClientError"
    [] x.kind \in {"ConnectTimeout", "ReadTimeout"} -> "Timeout"
    [] x.kind = "ConnectionError" -> "NetworkUnreachable"
    [] OTHER -> "Unknown"

FinalAttemptFailed == FetchReturned /\ Len(posted) = 3 /\ posted[3].raised

\* C15: when the final attempt fails, the error returned and shown is of the category its
\* failure determines: 429 RateLimited, 5xx ServerError, other HTTP errors ClientError,
\* connect and read timeouts Timeout, other connection failures NetworkUnreachable, any
\* other request failure Unknown
C15_ErrorCategory ==
  FinalAttemptFailed =>
    /\ ~out.ok
    /\ Category(out.error) = ExpectedCategory(wire)
    /\ pc = "stopped" =>
         Last(shown) = Message("error", <<"Error calling Similarity API: ">> \o out.error)

C15_Witness ==
  /\ FinalAttemptFailed
  /\ pc = "stopped"
  /\ wire.kind = "ConnectTimeout"
  /\ Category(out.error) = "Timeout"

\* C16: within a run the model is called at most once, and once a generation call has
\* failed no further generation call and no further similarity request is made
C16_SingleAttemptTerminal ==
  [][/\ Len(calls') <= 1
     /\ (caught.raised /\ runs' = runs) => (calls' = calls /\ posted' = posted)]_vars

C16_Witness == caught.raised /\ pc = "stopped" /\ Len(calls) = 1 /\ posted # <<>>

\* the text a document contributes: its combined_details when present and non-empty,
\* otherwise its document text, or nothing when it has none
ChosenText(doc) ==
  IF "combined_details" \in DOMAIN doc.d /\ doc.d["combined_details"] \notin {NoneV, StrV(<<>>)}
    THEN doc.d["combined_details"].s
  ELSE IF "document" \in DOMAIN doc.d /\ doc.d["document"].t = "str" THEN doc.d["document"].s
  ELSE <<>>

\* the chosen texts in list order, a blank line between neighbours
RECURSIVE InOrder(_)
InOrder(docs) ==
  IF docs = <<>> THEN <<>>
  ELSE IF Len(docs) = 1 THEN ChosenText(docs[1])
  ELSE ChosenText(docs[1]) \o <<"\n", "\n">> \o InOrder(Tail(docs))

\* C17: the context is the documents' chosen texts in the order received, separated by
\* blank lines, each document giving its combined_details when present and non-empty
\* and its document text otherwise
C17_ContextOrder ==
  (ContextAssembled /\ Len(InOrder(similar_docs.items)) <= max_context_chars) =>
    context_details = InOrder(similar_docs.items)

C17_Witness ==
  /\ ContextAssembled
  /\ similar_docs =
       ListV(<<DictV([combined_details |-> StrV(<<"a">>), document |-> StrV(<<"b", "c">>)]),
               DictV([document |-> StrV(<<"b", "c">>)])>>)
  /\ context_details = <<"a", "\n", "\n", "b", "c">>

\* a list of documents whose text fields are each missing, null or a string
TextDocs(docs) ==
  /\ docs.t = "list"
  /\ \A n \in 1..Len(docs.items) :
       /\ docs.items[n].t = "dict"
       /\ \A f \in {"combined_details", "document"} \cap DOMAIN docs.items[n].d :
            docs.items[n].d[f].t \in {"None", "str"}

\* C18 (as claimed): for every list of documents, those with missing, empty or null text
\* fields included, assembling the context raises no error, and an empty joined text
\* gives the empty context
C18_AssemblyNeverRaises ==
  TextDocs(similar_docs) =>
    /\ escaped.line # 156
    /\ (ContextAssembled /\ Joined = <<>>) => context_details = <<>>

\* the sleeps of a call so far: one after each failed request that another follows
SleepsDue == IF pc = "attempt" THEN Len(posted) ELSE IF posted = <<>> THEN 0 ELSE Len(posted) - 1

RECURSIVE Sum(_)
Sum(s) == IF s = <<>> THEN 0 ELSE Head(s) + Sum(Tail(s))

C19_Pauses ==
  /\ Len(posted) <= 3
  /\ \A n \in 1..(Len(posted) - 1) : posted[n].raised
  /\ (FetchReturned /\ state # "Idle") => Len(posted) >= 1
  /\ Len(slept) = SleepsDue
  /\ \A n \in 1..Len(slept) : slept[n] = <<5, 10>>[n]
  /\ Sum(slept) <= 15
  /\ \A n \in 1..Len(slept) : slept[n] # 20

\* C19: a call of fetch_similar makes between 1 and 3 requests and stops at the first
\* success; it has slept 0.5 after a failed first request and 1.0 after a failed second
\* one, never before the first request, after a success or after the third failure, so
\* never 2.0 and at most 1.5 in total; and every call returns
C19_SleepsBetweenAttempts == []C19_Pauses /\ (pc = "fetch" ~> FetchReturned)

C19_Witness ==
  /\ pc = "read"
  /\ Len(posted) = 3
  /\ \A n \in 1..3 : posted[n].raised
  /\ slept = <<5, 10>>

====
